---- MODULE Spec2Model ----
(***************************************************************************)
(* A model of the sapf language server (src/src/main.rs): the document     *)
(* store, the knowledge base, the word-at-position lookup, the lexical     *)
(* scanner with its delta encoding, and the hover / completion /           *)
(* semanticTokens handlers.                                                *)
(*                                                                         *)
(* A text is a sequence of characters; a character is a string that names  *)
(* it.  Rust strings are UTF-8: str::len and str slicing count bytes,      *)
(* chars() counts characters, so every character carries its UTF-8 width.  *)
(***************************************************************************)
EXTENDS Integers, Sequences, FiniteSets, TLC

VARIABLES
    categories,   \* Backend.categories: the knowledge base, fixed after new()
    documents,    \* Backend.documents: uri -> Option<text>
    resp,         \* the answer of the last handler that ran
    fault,        \* TRUE once a handler has panicked
    log,          \* history of the notifications delivered (SpecStore only)
    lock,         \* the RwLock around documents: readers and writer (SpecConc)
    task          \* the concurrently running handlers (SpecConc)

vars == <<categories, documents, resp, fault, log, lock, task>>

(***************************************************************************)
(* Option<T>                                                               *)
(***************************************************************************)
None == [some |-> FALSE]
Some(v) == [some |-> TRUE, val |-> v]

(***************************************************************************)
(* Characters.                                                             *)
(***************************************************************************)
\* the characters that take two bytes in UTF-8: "U+00E9" stands for the one
\* character e with acute accent, a letter
TwoByteChars == {"U+00E9"}

\* char::len_utf8
UTF8Len(c) == IF c \in TwoByteChars THEN 2 ELSE 1

\* char::is_whitespace
is_whitespace(c) == c \in {" ", "\t", "\n", "\r", "\f"}

\* char::is_ascii_digit
is_ascii_digit(c) == c \in {"0", "1", "2", "3", "4", "5", "6", "7", "8", "9"}

\* char::is_alphabetic, on the letters the model uses
is_alphabetic(c) == c \in {"a", "b", "d", "h", "m", "t", "x", "U+00E9"}

\* char::is_alphanumeric
is_alphanumeric(c) == is_alphabetic(c) \/ is_ascii_digit(c)

\* the match arm '+' | '-' | '*' | '/' | '='
is_operator(c) == c \in {"+", "-", "*", "/", "="}

(***************************************************************************)
(* Strings.                                                                *)
(***************************************************************************)
\* str::len: the length of a text in bytes
RECURSIVE len(_)
len(s) == IF s = <<>> THEN 0 ELSE UTF8Len(Head(s)) + len(Tail(s))

\* str::starts_with
starts_with(s, p) == Len(p) <= Len(s) /\ SubSeq(s, 1, Len(p)) = p

\* str::is_char_boundary: byte index i falls between two characters of s
is_char_boundary(s, i) == \E k \in 0..Len(s) : len(SubSeq(s, 1, k)) = i

\* &s[..i]: the characters that fill the first i bytes (i a char boundary)
slice_to(s, i) ==
    LET k == CHOOSE k \in 0..Len(s) : len(SubSeq(s, 1, k)) = i
    IN  SubSeq(s, 1, k)

\* str::trim
RECURSIVE trim_start(_)
trim_start(s) ==
    IF s # <<>> /\ is_whitespace(Head(s)) THEN trim_start(Tail(s)) ELSE s

RECURSIVE trim_end(_)
trim_end(s) ==
    IF s # <<>> /\ is_whitespace(s[Len(s)])
    THEN trim_end(SubSeq(s, 1, Len(s) - 1)) ELSE s

trim(s) == trim_end(trim_start(s))

\* str::split_once('.'): split at the first '.', None without one
split_once(s) ==
    IF \E i \in 1..Len(s) : s[i] = "."
    THEN LET i == CHOOSE i \in 1..Len(s) :
                      s[i] = "." /\ \A j \in 1..(i - 1) : s[j] # "."
         IN  Some(<<SubSeq(s, 1, i - 1), SubSeq(s, i + 1, Len(s))>>)
    ELSE None

\* str::lines: split after every "\n"; a line loses its "\n" and then a "\r"
\* before it; an empty last piece is no line
RECURSIVE lines_from(_, _)
lines_from(s, cur) ==
    IF s = <<>> THEN (IF cur = <<>> THEN <<>> ELSE <<cur>>)
    ELSE IF Head(s) = "\n"
         THEN <<IF cur # <<>> /\ cur[Len(cur)] = "\r"
                THEN SubSeq(cur, 1, Len(cur) - 1) ELSE cur>>
              \o lines_from(Tail(s), <<>>)
         ELSE lines_from(Tail(s), Append(cur, Head(s)))

lines(content) == lines_from(content, <<>>)

\* str::split_whitespace: the maximal runs of non-whitespace characters
RECURSIVE words_from(_, _)
words_from(s, cur) ==
    IF s = <<>> THEN (IF cur = <<>> THEN <<>> ELSE <<cur>>)
    ELSE IF is_whitespace(Head(s))
         THEN (IF cur = <<>> THEN <<>> ELSE <<cur>>) \o words_from(Tail(s), <<>>)
         ELSE words_from(Tail(s), Append(cur, Head(s)))

\* mutant of split_whitespace: a '.' separates words as whitespace does
RECURSIVE words_or_names_from(_, _)
words_or_names_from(s, cur) ==
    IF s = <<>> THEN (IF cur = <<>> THEN <<>> ELSE <<cur>>)
    ELSE IF is_whitespace(Head(s)) \/ Head(s) = "."
         THEN (IF cur = <<>> THEN <<>> ELSE <<cur>>)
              \o words_or_names_from(Tail(s), <<>>)
         ELSE words_or_names_from(Tail(s), Append(cur, Head(s)))

split_whitespace_and_dots(line) == words_or_names_from(line, <<>>)

split_whitespace(line) == words_from(line, <<>>)

(***************************************************************************)
(* get_word_at_position (main.rs 335-350)                                  *)
(***************************************************************************)
\* the for loop over the words, from its current_pos
RECURSIVE word_loop(_, _, _)
word_loop(words, current_pos, character) ==
    IF words = <<>> THEN None
    ELSE LET word == Head(words)
             word_end == current_pos + len(word)
         IN  IF character >= current_pos /\ character <= word_end
             THEN Some(word)
             ELSE word_loop(Tail(words), word_end + 1, character)

get_word_at_position(content, line, character) ==
    LET ls == lines(content)
    IN  IF line >= Len(ls) THEN None
        ELSE word_loop(split_whitespace(ls[line + 1]), 0, character)

(***************************************************************************)
(* The knowledge base (main.rs 12-16, 47-49).  The dictionary payload      *)
(* VALUES_JSON lives in dict.rs; the payloads below are the scenario of    *)
(* the specification and a small one with a keyword held by two            *)
(* categories ("ab") and a keyword that is also a category name ("b").     *)
(***************************************************************************)
Uris == {"u1", "u2"}

ScenarioKB ==
    (<<"m", "a", "t", "h">> :>
        [description |-> "Math operators",
         items |-> (<<"a", "d", "d">> :> "Adds two numbers")])

SmallKB ==
    (<<"a">> :>
        [description |-> "category a",
         items |-> (<<"a", "b">> :> "ab of a" @@ <<"b">> :> "b of a"
                    @@ <<"U+00E9">> :> "U+00E9 of a")])
    @@ (<<"b">> :>
        [description |-> "category b",
         items |-> (<<"a", "b">> :> "ab of b" @@ <<"b", "1">> :> "b1 of b")])

\* load_categories: the payloads the model is run with
load_categories == {ScenarioKB, SmallKB}

\* the keys of get_all_keywords(): every keyword of every category
all_keys(cats) == UNION {DOMAIN cats[c].items : c \in DOMAIN cats}

\* the orders in which HashMap::values() can iterate over the categories
value_orders(cats) ==
    {o \in [1..Cardinality(DOMAIN cats) -> DOMAIN cats] :
        \A i, j \in DOMAIN o : i # j => o[i] # o[j]}

\* all_keywords.extend(category.items.clone()) for the categories of an
\* order, one after the other: a later category's entry replaces an earlier one
RECURSIVE extend_all(_, _, _)
extend_all(all_keywords, cats, order) ==
    IF order = <<>> THEN all_keywords
    ELSE extend_all(cats[Head(order)].items @@ all_keywords, cats, Tail(order))

\* get_all_keywords: the flattened maps it can return, one per iteration order
get_all_keywords(cats) ==
    {extend_all(<<>>, cats, o) : o \in value_orders(cats)}

(***************************************************************************)
(* The document store (main.rs 21, 34-36, 110-124).                        *)
(***************************************************************************)
\* HashMap::insert
insert(docs, uri, text) == [docs EXCEPT ![uri] = Some(text)]

\* get_document_content
get_document_content(docs, uri) == docs[uri]

\* mutant of last: the first entry of the batch is taken
first_entry(changes) == IF changes = <<>> THEN None ELSE Some(changes[1])

\* content_changes.last()
last(changes) == IF changes = <<>> THEN None ELSE Some(changes[Len(changes)])

\* the store after did_change: only the last entry of the batch is applied
changed(docs, uri, content_changes) ==
    IF last(content_changes).some
    THEN insert(docs, uri, last(content_changes).val.text)
    ELSE docs

\* the notifications leave log to the specification that runs them: it is
\* a record of the run, no state of the server
did_open(uri, text) ==
    /\ ~fault
    /\ documents' = insert(documents, uri, text)
    /\ UNCHANGED <<categories, resp, fault, lock, task>>

did_change(uri, content_changes) ==
    /\ ~fault
    /\ documents' = changed(documents, uri, content_changes)
    /\ UNCHANGED <<categories, resp, fault, lock, task>>

(***************************************************************************)
(* hover (main.rs 126-157)                                                 *)
(***************************************************************************)
\* mutant of lookup: the flattened keywords are consulted before the
\* category names
lookup_keywords_first(cats, word) ==
    IF word \in all_keys(cats)
    THEN {Some(all_keywords[word]) : all_keywords \in get_all_keywords(cats)}
    ELSE IF word \in DOMAIN cats
         THEN {Some(cats[word].description)}
         ELSE {None}

\* the lookup of a word: the category names first, then the flattened
\* keywords; a keyword of several categories has the documentation of any one
lookup(cats, word) ==
    IF word \in DOMAIN cats
    THEN {Some(cats[word].description)}
    ELSE IF word \in all_keys(cats)
         THEN {Some(all_keywords[word]) :
                   all_keywords \in get_all_keywords(cats)}
         ELSE {None}

\* what hover can answer on a content: the word it finds and its result
hover_results(cats, content, line, character) ==
    LET word == get_word_at_position(content.val, line, character)
    IN  IF ~content.some THEN {[word |-> None, result |-> None]}
        ELSE IF ~word.some THEN {[word |-> None, result |-> None]}
        ELSE {[word |-> word, result |-> r] : r \in lookup(cats, word.val)}

hover(uri, line, character) ==
    /\ ~fault
    /\ LET content == get_document_content(documents, uri)
       IN  \E r \in hover_results(categories, content, line, character) :
               resp' = [kind |-> "hover", uri |-> uri, line |-> line,
                        character |-> character, content |-> content,
                        word |-> r.word, result |-> r.result]
    /\ UNCHANGED <<categories, documents, fault, log, lock, task>>

(***************************************************************************)
(* completion (main.rs 159-224)                                            *)
(***************************************************************************)
\* &line[..character] panics when character is past the line's last byte or
\* falls inside a character
slice_panics(line, character) ==
    character > len(line) \/ ~is_char_boundary(line, character)

\* the items pushed by the loop over the categories
category_items(cats, prefix) ==
    {[label |-> c, kind |-> "MODULE",
      documentation |-> cats[c].description,
      insert_text |-> c \o <<".">>] :
        c \in {c \in DOMAIN cats : starts_with(c, prefix)}}

\* the items a keyword map gives for the keys that start with a prefix
keyword_items(items, prefix) ==
    {[label |-> k, kind |-> "KEYWORD", documentation |-> items[k],
      insert_text |-> k] :
        k \in {k \in DOMAIN items : starts_with(k, prefix)}}

\* the item lists completion can build from a prefix (as sets: a Vec filled
\* in the maps' iteration order, with no item twice)
completion_items(cats, prefix) ==
    LET split == split_once(prefix)
    IN  IF split.some
        THEN LET category_prefix == split.val[1]
                 item_prefix == split.val[2]
             IN  IF category_prefix \in DOMAIN cats
                 THEN {category_items(cats, prefix)
                        \cup keyword_items(cats[category_prefix].items,
                                           trim(item_prefix))}
                 ELSE {category_items(cats, prefix)}
        ELSE {category_items(cats, prefix) \cup keyword_items(all_keywords, prefix) :
                  all_keywords \in get_all_keywords(cats)}

\* what completion answers on a content: a panic, or one of the item lists
completion_results(cats, content, line, character) ==
    LET ls == lines(content.val)
    IN  IF ~content.some THEN {[panic |-> FALSE, items |-> {}]}
        ELSE IF line >= Len(ls) THEN {[panic |-> FALSE, items |-> {}]}
        ELSE IF slice_panics(ls[line + 1], character)
             THEN {[panic |-> TRUE, items |-> {}]}
        ELSE {[panic |-> FALSE, items |-> i] :
                 i \in completion_items(cats, slice_to(ls[line + 1], character))}

completion(uri, line, character) ==
    /\ ~fault
    /\ LET content == get_document_content(documents, uri)
       IN  \E r \in completion_results(categories, content, line, character) :
               /\ resp' = [kind |-> "completion", uri |-> uri, line |-> line,
                           character |-> character, content |-> content,
                           panic |-> r.panic, items |-> r.items]
               /\ fault' = r.panic
    /\ UNCHANGED <<categories, documents, log, lock, task>>

(***************************************************************************)
(* semantic_tokens_full: the scan pass (main.rs 236-301)                   *)
(***************************************************************************)
SemanticToken(line_num, offset, length, token_type) ==
    [delta_line |-> line_num, delta_start |-> offset, length |-> length,
     token_type |-> token_type, token_modifiers_bitset |-> 0]

\* the characters the inner while loop of the number branch consumes
RECURSIVE number_run(_)
number_run(chars) ==
    IF chars # <<>> /\ (is_ascii_digit(Head(chars)) \/ Head(chars) = ".")
    THEN <<Head(chars)>> \o number_run(Tail(chars)) ELSE <<>>

\* the characters the inner while loop of the word branch consumes
RECURSIVE word_run(_)
word_run(chars) ==
    IF chars # <<>> /\ (is_alphanumeric(Head(chars)) \/ Head(chars) = "_")
    THEN <<Head(chars)>> \o word_run(Tail(chars)) ELSE <<>>

\* mutant of after_number: the offset moves by one column for the whole number
after_number_by_one(offset, length) == offset + 1

\* offset += length, after a number
after_number(offset, length) == offset + length

\* offset += word.len() as u32, after a word
after_word(offset, word) == offset + len(word)

\* the while loop over the characters of one line, from its offset
RECURSIVE scan_line(_, _, _, _)
scan_line(chars, offset, line_num, all_keywords) ==
    IF chars = <<>> THEN <<>>
    ELSE LET c == Head(chars)
             rest == Tail(chars)
         IN  IF is_operator(c)
             THEN <<SemanticToken(line_num, offset, 1, 1)>>
                  \o scan_line(rest, offset + 1, line_num, all_keywords)
             ELSE IF is_ascii_digit(c)
             THEN LET length == 1 + Len(number_run(rest))
                  IN  <<SemanticToken(line_num, offset, length, 2)>>
                      \o scan_line(SubSeq(rest, length, Len(rest)),
                                   after_number(offset, length), line_num,
                                   all_keywords)
             ELSE IF is_alphabetic(c)
             THEN LET word == <<c>> \o word_run(rest)
                  IN  (IF word \in DOMAIN all_keywords
                       THEN <<SemanticToken(line_num, offset, len(word), 0)>>
                       ELSE <<>>)
                      \o scan_line(SubSeq(rest, Len(word), Len(rest)),
                                   after_word(offset, word), line_num,
                                   all_keywords)
             ELSE scan_line(rest, offset + 1, line_num, all_keywords)

\* the for loop over content.lines().enumerate()
RECURSIVE scan_lines(_, _, _)
scan_lines(ls, line_num, all_keywords) ==
    IF ls = <<>> THEN <<>>
    ELSE scan_line(Head(ls), 0, line_num, all_keywords)
         \o scan_lines(Tail(ls), line_num + 1, all_keywords)

scan(content, all_keywords) == scan_lines(lines(content), 0, all_keywords)

(***************************************************************************)
(* semantic_tokens_full: the delta pass (main.rs 303-323)                  *)
(***************************************************************************)
\* u32 subtraction as a build without overflow checks computes it; a result
\* n < 0 stands for the u32 value 2^32 + n, more than the checker's integers hold
wrapping_sub(a, b) == a - b

\* mutant of same_line_start: the column is left absolute
same_line_start_absolute(token, current_start) == token.delta_start

\* the delta_start the same-line branch gives a token
same_line_start(token, current_start) ==
    wrapping_sub(token.delta_start, current_start)

\* the for loop over the tokens, from its current_line and current_start
RECURSIVE delta_pass(_, _, _)
delta_pass(tokens, current_line, current_start) ==
    IF tokens = <<>> THEN <<>>
    ELSE LET token == Head(tokens)
         IN  <<IF token.delta_line = current_line
               THEN [token EXCEPT !.delta_line = 0,
                                  !.delta_start =
                                      same_line_start(token, current_start)]
               ELSE [token EXCEPT !.delta_line =
                                      wrapping_sub(token.delta_line, current_line)]>>
             \o delta_pass(Tail(tokens), token.delta_line, token.delta_start)

\* whether one of the loop's subtractions goes below zero
RECURSIVE delta_underflows(_, _, _)
delta_underflows(tokens, current_line, current_start) ==
    IF tokens = <<>> THEN FALSE
    ELSE LET token == Head(tokens)
         IN  \/ IF token.delta_line = current_line
                THEN token.delta_start < current_start
                ELSE token.delta_line < current_line
             \/ delta_underflows(Tail(tokens), token.delta_line,
                                 token.delta_start)

\* semantic_tokens_full: a subtraction below zero panics in a build with
\* overflow checks and wraps in one without
semantic_tokens_full(uri) ==
    /\ ~fault
    /\ LET content == get_document_content(documents, uri)
       IN  IF ~content.some
           THEN /\ resp' = [kind |-> "tokens", uri |-> uri,
                            content |-> content, panic |-> FALSE,
                            tokens |-> <<>>, result |-> None]
                /\ fault' = fault
           ELSE \E all_keywords \in get_all_keywords(categories),
                   overflow_checks \in BOOLEAN :
                    LET tokens == scan(content.val, all_keywords)
                        panic == /\ overflow_checks
                                 /\ delta_underflows(tokens, 0, 0)
                    IN  /\ resp' = [kind |-> "tokens", uri |-> uri,
                                    content |-> content, panic |-> panic,
                                    tokens |-> tokens,
                                    result |-> IF panic THEN None
                                               ELSE Some(delta_pass(tokens, 0, 0))]
                        /\ fault' = panic
    /\ UNCHANGED <<categories, documents, log, lock, task>>

(***************************************************************************)
(* The server driven by one request or notification at a time, on a few    *)
(* documents.                                                              *)
(***************************************************************************)
MaxLine == 2
MaxColumn == 8
MaxBatch == 2

Text_math_dot_add == <<"m", "a", "t", "h", ".", "a", "d", "d", " ", "1", " ", "2">>
Text_math_add == <<"m", "a", "t", "h", " ", "a", "d", "d", " ", "1", " ", "2">>
Text_two_lines == <<"a", "b", " ", "b", "\n", " ", " ", "b", "+", "1", ".", "5">>
\* a line that starts with the two-byte letter
Text_wide == <<"U+00E9", ".", "a", " ", "a", "b">>

Texts == {<<>>, Text_math_dot_add, Text_math_add, Text_two_lines, Text_wide}

\* the texts the entries of a did_change batch are drawn from
ChangeTexts == {<<>>, Text_math_add}

\* TextDocumentContentChangeEvent batches of up to n entries over a set of texts
Batches(texts, n) ==
    UNION {[1..k -> {[text |-> t] : t \in texts}] : k \in 0..n}

NoLock == [readers |-> {}, writer |-> None]

\* Backend::new
InitBackend ==
    /\ categories \in load_categories
    /\ documents = [u \in Uris |-> None]
    /\ resp = [kind |-> "none"]
    /\ fault = FALSE
    /\ log = <<>>
    /\ lock = NoLock
    /\ task = <<>>

Init == InitBackend

Next ==
    \/ \E uri \in Uris, text \in Texts :
           did_open(uri, text) /\ UNCHANGED log
    \/ \E uri \in Uris, changes \in Batches(ChangeTexts, MaxBatch) :
           did_change(uri, changes) /\ UNCHANGED log
    \/ \E uri \in Uris, line \in 0..MaxLine, character \in 0..MaxColumn :
           hover(uri, line, character)
    \/ \E uri \in Uris, line \in 0..MaxLine, character \in 0..MaxColumn :
           completion(uri, line, character)
    \/ \E uri \in Uris : semantic_tokens_full(uri)

Spec == Init /\ [][Next]_vars

(***************************************************************************)
(* The document store under every sequence of notifications, with the      *)
(* history of the notifications kept in log.                               *)
(***************************************************************************)
MaxLog == 3

StoreTexts == {<<"a">>, <<"b">>}

InitStore == InitBackend

NextStore ==
    \/ \E uri \in Uris, text \in StoreTexts :
           /\ Len(log) < MaxLog
           /\ did_open(uri, text)
           /\ log' = Append(log, [op |-> "did_open", uri |-> uri, text |-> text])
    \/ \E uri \in Uris, changes \in Batches(StoreTexts, MaxBatch) :
           /\ Len(log) < MaxLog
           /\ did_change(uri, changes)
           /\ log' = Append(log, [op |-> "did_change", uri |-> uri,
                                  content_changes |-> changes])

SpecStore == InitStore /\ [][NextStore]_vars

(***************************************************************************)
(* Every text of a bounded length over a few characters, opened as         *)
(* document "u1" of a server that then answers requests.                   *)
(***************************************************************************)
AllTexts(chars, n) == UNION {[1..k -> chars] : k \in 0..n}

InitOpened(kbs, texts) ==
    /\ categories \in kbs
    /\ documents \in {[u \in Uris |-> IF u = "u1" THEN Some(t) ELSE None] :
                          t \in texts}
    /\ resp = [kind |-> "none"]
    /\ fault = FALSE
    /\ log = <<>>
    /\ lock = NoLock
    /\ task = <<>>

\* hover on every short text of letters, blanks and line ends
MaxHoverLen == 4
HoverChars == {"a", "b", " ", "\n"}

InitHover == InitOpened({SmallKB}, AllTexts(HoverChars, MaxHoverLen))

NextHover ==
    \E uri \in Uris, line \in 0..MaxHoverLen, character \in 0..(MaxHoverLen + 1) :
        hover(uri, line, character)

SpecHover == InitHover /\ [][NextHover]_vars

\* semantic tokens of every short text of letters (one of two bytes), digits,
\* operators, line ends, and '.' and '_', which are skipped like a blank
\* where no number or word is under way
MaxScanLen == 5
ScanChars == {"b", "U+00E9", "1", ".", "+", "\n", "_"}

InitTokens == InitOpened({SmallKB}, AllTexts(ScanChars, MaxScanLen))

NextTokens == \E uri \in Uris : semantic_tokens_full(uri)

SpecTokens == InitTokens /\ [][NextTokens]_vars

(***************************************************************************)
(* Handlers running concurrently (one task per request), sharing the       *)
(* store behind its RwLock (main.rs 21, 35, 111-114, 119-122).             *)
(*                                                                         *)
(* A task is idle, or runs a writer (did_open, did_change) or a reader     *)
(* (get_document_content, the store access of hover, completion and        *)
(* semantic_tokens_full).  HashMap::insert takes time: between its first   *)
(* and its last step the entry holds neither the old nor the new text.     *)
(* log lists the writes in the order they were completed.                  *)
(***************************************************************************)
NumTasks == 3
MaxWrites == 2

Tasks == 1..NumTasks

\* what an entry holds while an insert is under way
Torn == Some(<<"torn">>)

Idle == [pc |-> "idle"]

\* mutant of read_available: a read guard is granted at any time
read_always(l) == TRUE

\* RwLock::read() is granted while no writer holds the lock
read_available(l) == ~l.writer.some

\* RwLock::write() is granted while nobody holds the lock
write_available(l) == ~l.writer.some /\ l.readers = {}

writes_begun ==
    Len(log) + Cardinality({t \in Tasks :
                  task[t].pc \in {"write", "insert", "inserting"}})

\* a did_open, or a did_change with a batch that has a last entry, reaches
\* self.documents.write().await
begin_write(t, uri, text) ==
    /\ task[t].pc = "idle"
    /\ writes_begun < MaxWrites
    /\ task' = [task EXCEPT ![t] = [pc |-> "write", uri |-> uri, text |-> text]]
    /\ UNCHANGED <<categories, documents, resp, fault, log, lock>>

\* a did_change with an empty batch returns at once, the store untouched
change_nothing(t, uri) ==
    /\ task[t].pc = "idle"
    /\ ~last(<<>>).some
    /\ UNCHANGED vars

\* .write().await returns the write guard
acquire_write(t) ==
    /\ task[t].pc = "write"
    /\ write_available(lock)
    /\ lock' = [lock EXCEPT !.writer = Some(t)]
    /\ task' = [task EXCEPT ![t].pc = "insert"]
    /\ UNCHANGED <<categories, documents, resp, fault, log>>

\* .insert(uri, text) starts to write the entry
insert_begin(t) ==
    /\ task[t].pc = "insert"
    /\ documents' = [documents EXCEPT ![task[t].uri] = Torn]
    /\ task' = [task EXCEPT ![t].pc = "inserting"]
    /\ UNCHANGED <<categories, resp, fault, log, lock>>

\* .insert(uri, text) has written the entry
insert_end(t) ==
    /\ task[t].pc = "inserting"
    /\ documents' = insert(documents, task[t].uri, task[t].text)
    /\ log' = Append(log, [uri |-> task[t].uri, text |-> task[t].text])
    /\ task' = [task EXCEPT ![t].pc = "written"]
    /\ UNCHANGED <<categories, resp, fault, lock>>

\* the write guard is dropped at the end of the statement and the handler
\* returns
release_write(t) ==
    /\ task[t].pc = "written"
    /\ lock' = [lock EXCEPT !.writer = None]
    /\ task' = [task EXCEPT ![t] = Idle]
    /\ UNCHANGED <<categories, documents, resp, fault, log>>

\* a hover, completion or semantic_tokens_full reaches
\* self.documents.read().await
begin_read(t, uri) ==
    /\ task[t].pc = "idle"
    /\ task' = [task EXCEPT ![t] = [pc |-> "read", uri |-> uri]]
    /\ UNCHANGED <<categories, documents, resp, fault, log, lock>>

\* .read().await returns a read guard
acquire_read(t) ==
    /\ task[t].pc = "read"
    /\ read_available(lock)
    /\ lock' = [lock EXCEPT !.readers = @ \cup {t}]
    /\ task' = [task EXCEPT ![t].pc = "get"]
    /\ UNCHANGED <<categories, documents, resp, fault, log>>

\* .get(uri).cloned(): the task's copy of the entry, with the number of
\* writes completed before it
get_cloned(t) ==
    /\ task[t].pc = "get"
    /\ task' = [task EXCEPT ![t] =
                   [pc |-> "got", uri |-> task[t].uri,
                    content |-> get_document_content(documents, task[t].uri),
                    after |-> Len(log)]]
    /\ UNCHANGED <<categories, documents, resp, fault, log, lock>>

\* the read guard is dropped at the end of the statement; the handler
\* answers from its copy and returns
release_read(t) ==
    /\ task[t].pc = "got"
    /\ lock' = [lock EXCEPT !.readers = @ \ {t}]
    /\ resp' = [kind |-> "get", uri |-> task[t].uri,
                content |-> task[t].content, after |-> task[t].after]
    /\ task' = [task EXCEPT ![t] = Idle]
    /\ UNCHANGED <<categories, documents, fault, log>>

InitConc ==
    /\ categories \in {SmallKB}
    /\ documents = [u \in Uris |-> None]
    /\ resp = [kind |-> "none"]
    /\ fault = FALSE
    /\ log = <<>>
    /\ lock = NoLock
    /\ task = [t \in Tasks |-> Idle]

NextConc ==
    \E t \in Tasks :
        \/ \E uri \in Uris, text \in StoreTexts : begin_write(t, uri, text)
        \/ \E uri \in Uris : change_nothing(t, uri)
        \/ acquire_write(t)
        \/ insert_begin(t)
        \/ insert_end(t)
        \/ release_write(t)
        \/ \E uri \in Uris : begin_read(t, uri)
        \/ acquire_read(t)
        \/ get_cloned(t)
        \/ release_read(t)

SpecConc == InitConc /\ [][NextConc]_vars

(***************************************************************************)
(* Properties.                                                             *)
(***************************************************************************)

\* the notifications of the log that wrote to a uri: every did_open, and every
\* did_change whose batch is not empty
WritesTo(uri) ==
    {i \in 1..Len(log) :
        /\ log[i].uri = uri
        /\ \/ log[i].op = "did_open"
           \/ Len(log[i].content_changes) > 0}

\* the text of the most recent write to a uri, None with no write
LatestWrite(uri) ==
    IF WritesTo(uri) = {} THEN None
    ELSE LET i == CHOOSE i \in WritesTo(uri) : \A j \in WritesTo(uri) : j <= i
         IN  IF log[i].op = "did_open" THEN Some(log[i].text)
             ELSE Some(log[i].content_changes[Len(log[i].content_changes)].text)

\* C4: after any sequence of did_open and did_change notifications on any
\* uris, get(uri) is exactly the text of the most recent write to that uri
\* (the text of an open, the last entry of a change batch), whatever was
\* stored before and whatever was sent for other uris, and it is not-found
\* exactly when no notification ever wrote to that uri.
C4_StoreRoundTrip ==
    \A uri \in Uris : get_document_content(documents, uri) = LatestWrite(uri)

\* C4 witness: u1 was opened, then changed by a batch of two different
\* entries whose last differs from the opened text, then u2 was written, and
\* u1 holds the last entry of the batch.
C4_Witness ==
    /\ Len(log) = 3
    /\ log[1].op = "did_open" /\ log[1].uri = "u1"
    /\ log[2].op = "did_change" /\ log[2].uri = "u1"
    /\ Len(log[2].content_changes) = 2
    /\ log[2].content_changes[1].text # log[2].content_changes[2].text
    /\ log[2].content_changes[2].text # log[1].text
    /\ log[3].uri = "u2" /\ log[3].op = "did_open"
    /\ documents["u1"] = Some(log[2].content_changes[2].text)

\* the tasks that hold the write guard, and those that hold a read guard
InWrite == {t \in Tasks : task[t].pc \in {"insert", "inserting", "written"}}
InRead == {t \in Tasks : task[t].pc \in {"get", "got"}}

\* the reads made: the copies the tasks hold and the one last answered from
Reads ==
    {[uri |-> task[t].uri, content |-> task[t].content, after |-> task[t].after] :
        t \in {t \in Tasks : task[t].pc = "got"}}
    \cup (IF resp.kind = "get"
          THEN {[uri |-> resp.uri, content |-> resp.content, after |-> resp.after]}
          ELSE {})

\* the text of the last of the first n completed writes that wrote a uri
LatestCompleted(uri, n) ==
    LET W == {i \in 1..n : log[i].uri = uri}
    IN  IF W = {} THEN None
        ELSE Some(log[CHOOSE i \in W : \A j \in W : j <= i].text)

\* C5: under every interleaving of the handlers, a task holds the write
\* guard only while no other task holds a write or a read guard, and the
\* text a reader obtains for a uri is never a partially written entry: it is
\* the full text of the last write to that uri completed before the read, or
\* not-found when there was none.
C5_Linearizable ==
    /\ InWrite # {} => Cardinality(InWrite) = 1 /\ InRead = {}
    /\ \A r \in Reads :
           /\ r.content # Torn
           /\ r.content = LatestCompleted(r.uri, r.after)

\* C5 witness: a reader has obtained the text of a completed write while
\* another reader holds the lock with it and a writer to the same uri waits.
C5_Witness ==
    \E t, r, w \in Tasks :
        /\ t # r /\ {t, r} \subseteq lock.readers
        /\ task[t].pc = "got" /\ task[t].after = 1
        /\ task[t].content = Some(log[1].text)
        /\ task[w].pc = "write" /\ task[w].uri = task[t].uri
        /\ task[w].text # log[1].text

\* C6: the i-th encoded token is the i-th scanner span with its length and
\* type; a span that is the first of its line has deltaLine = its line minus
\* the line of the token before it (minus 0 for the first token) and
\* deltaStart = its start column; a later span of a line has deltaLine = 0
\* and deltaStart = its start column minus the start column of the span
\* before it; no subtraction goes below zero.
C6_DeltaEncoding ==
    (resp.kind = "tokens" /\ resp.content.some) =>
        /\ ~resp.panic /\ resp.result.some
        /\ Len(resp.result.val) = Len(resp.tokens)
        /\ \A i \in 1..Len(resp.tokens) :
               LET span == resp.tokens[i]
                   enc == resp.result.val[i]
                   prev_line == IF i = 1 THEN 0 ELSE resp.tokens[i - 1].delta_line
                   first_of_line ==
                       i = 1 \/ resp.tokens[i - 1].delta_line # span.delta_line
               IN  /\ enc.length = span.length
                   /\ enc.token_type = span.token_type
                   /\ enc.delta_line >= 0 /\ enc.delta_start >= 0
                   /\ IF first_of_line
                      THEN /\ enc.delta_line = span.delta_line - prev_line
                           /\ enc.delta_start = span.delta_start
                      ELSE /\ enc.delta_line = 0
                           /\ enc.delta_start =
                                  span.delta_start - resp.tokens[i - 1].delta_start

\* C6 witness: three spans were encoded, the second the first of a later line
\* than the first, the third a later span of the second's line.
C6_Witness ==
    /\ resp.kind = "tokens" /\ resp.result.some
    /\ Len(resp.tokens) = 3
    /\ resp.tokens[2].delta_line > resp.tokens[1].delta_line
    /\ resp.tokens[3].delta_line = resp.tokens[2].delta_line
    /\ resp.result.val[2].delta_line = 1
    /\ resp.result.val[3].delta_line = 0
    /\ resp.result.val[3].delta_start > 0
    /\ resp.result.val[3].delta_start < resp.tokens[3].delta_start

\* C8: the spans the scanner emits have a positive length; of two spans of a
\* line the later starts at a greater column, at or after the end of the
\* earlier; and scanning the content again, with any flattening of the same
\* keywords, gives the same spans.
C8_SpanOrder ==
    (resp.kind = "tokens" /\ resp.content.some) =>
        /\ \A i \in 1..Len(resp.tokens) : resp.tokens[i].length > 0
        /\ \A i, j \in 1..Len(resp.tokens) :
               (i < j /\ resp.tokens[i].delta_line = resp.tokens[j].delta_line) =>
                   /\ resp.tokens[j].delta_start > resp.tokens[i].delta_start
                   /\ resp.tokens[j].delta_start >=
                          resp.tokens[i].delta_start + resp.tokens[i].length
        /\ \A all_keywords \in get_all_keywords(categories) :
               scan(resp.content.val, all_keywords) = resp.tokens

\* C8 witness: a line gave a NUMBER span of two characters and then another
\* span that starts where the number ends.
C8_Witness ==
    /\ resp.kind = "tokens" /\ resp.content.some
    /\ Len(resp.tokens) >= 2
    /\ resp.tokens[1].token_type = 2 /\ resp.tokens[1].length = 2
    /\ resp.tokens[2].delta_line = resp.tokens[1].delta_line
    /\ resp.tokens[2].delta_start = resp.tokens[1].delta_start + 2

\* C9: when the word at the cursor is a category name, hover returns that
\* category's description, also when the word is a keyword too; otherwise,
\* when the word is a keyword of some category, hover returns a documentation
\* some category gives that keyword; otherwise, and with no word, nothing.
C9_HoverPrecedence ==
    resp.kind = "hover" =>
        IF resp.word.some /\ resp.word.val \in DOMAIN categories
        THEN resp.result = Some(categories[resp.word.val].description)
        ELSE IF /\ resp.word.some
                /\ \E c \in DOMAIN categories :
                       resp.word.val \in DOMAIN categories[c].items
             THEN \E c \in DOMAIN categories :
                      /\ resp.word.val \in DOMAIN categories[c].items
                      /\ resp.result = Some(categories[c].items[resp.word.val])
             ELSE resp.result = None

\* C9 witness: the word at the cursor is "b", a category name and a keyword
\* of category "a", and hover answered the description of category "b".
C9_Witness ==
    /\ resp.kind = "hover"
    /\ resp.word = Some(<<"b">>)
    /\ <<"b">> \in DOMAIN categories
    /\ \E c \in DOMAIN categories : <<"b">> \in DOMAIN categories[c].items
    /\ resp.result = Some("category b")

\* the line a request asks for, when the content has it
RequestedLine(r) == lines(r.content.val)[r.line + 1]

\* a request on a document never opened, on a line index that is no line of
\* the document, or on a column greater than the length of the line
BadPosition(r) ==
    \/ ~r.content.some
    \/ r.line >= Len(lines(r.content.val))
    \/ r.character > Len(RequestedLine(r))

\* C1: a hover, completion or semanticTokens request on an unknown uri, an
\* out-of-range line or a column greater than the line's length does not
\* fault and returns the empty answer: no hover contents, an empty completion
\* list, no token sequence.
C1_BadRequestsAnswerEmpty ==
    /\ (resp.kind = "hover" /\ BadPosition(resp)) => resp.result = None
    /\ (resp.kind = "completion" /\ BadPosition(resp)) =>
           ~resp.panic /\ resp.items = {}
    /\ (resp.kind = "tokens" /\ ~resp.content.some) =>
           ~resp.panic /\ resp.result = None

\* a hover answered on the scenario's knowledge base, at line 0 and a column
\* of the characters of "math"
ScenarioHover(text) ==
    /\ categories = ScenarioKB
    /\ resp.kind = "hover"
    /\ resp.content = Some(text)
    /\ resp.line = 0
    /\ resp.character \in 0..3

\* C2 as stated: with the scenario's knowledge base and the document
\* "math.add 1 2", hover at line 0 and a column inside "math" returns
\* "Math operators".
C2_ScenarioHoverAsStated ==
    ScenarioHover(Text_math_dot_add) => resp.result = Some("Math operators")

\* C2 amended: with the scenario's knowledge base, hover at line 0 and a
\* column inside "math" returns nothing on the document "math.add 1 2", whose
\* whitespace-delimited word there is "math.add", and returns "Math
\* operators" on the document "math add 1 2".
C2_ScenarioHover ==
    /\ ScenarioHover(Text_math_dot_add) =>
           resp.word = Some(<<"m", "a", "t", "h", ".", "a", "d", "d">>)
           /\ resp.result = None
    /\ ScenarioHover(Text_math_add) => resp.result = Some("Math operators")

\* C2 witness: hover inside "math" of "math.add 1 2" has answered nothing.
C2_Witness ==
    /\ ScenarioHover(Text_math_dot_add)
    /\ resp.character = 2
    /\ resp.result = None

\* the whitespace-delimited tokens of a line with their character spans:
\* start is the number of characters before the token
ActualTokens(line) ==
    {[start |-> i - 1, length |-> n, word |-> SubSeq(line, i, i + n - 1)] :
        <<i, n>> \in {<<i, n>> \in (1..Len(line)) \X (1..Len(line)) :
            /\ i + n - 1 <= Len(line)
            /\ \A k \in i..(i + n - 1) : ~is_whitespace(line[k])
            /\ i = 1 \/ is_whitespace(line[i - 1])
            /\ i + n - 1 = Len(line) \/ is_whitespace(line[i + n])}}

\* C3: get_word_at_position returns nothing when the line index is out of
\* range, and for every whitespace-delimited token of the line and every
\* column strictly inside the token's character span it returns that token.
C3_WordAtPosition ==
    (resp.kind = "hover" /\ resp.content.some) =>
        IF resp.line >= Len(lines(resp.content.val))
        THEN resp.word = None
        ELSE \A tok \in ActualTokens(RequestedLine(resp)) :
                 (tok.start < resp.character
                      /\ resp.character < tok.start + tok.length) =>
                     resp.word = Some(tok.word)

\* label and insertion text of the items the claim lists for a prefix
ClaimedItems(prefix) ==
    LET dot == {i \in 1..Len(prefix) : prefix[i] = "."}
        first_dot == CHOOSE i \in dot : \A j \in dot : i <= j
        category_prefix == SubSeq(prefix, 1, first_dot - 1)
        item_prefix == trim(SubSeq(prefix, first_dot + 1, Len(prefix)))
    IN  {[label |-> c, insert_text |-> c \o <<".">>] :
            c \in {c \in DOMAIN categories : starts_with(c, prefix)}}
        \cup
        (IF dot # {}
         THEN IF category_prefix \in DOMAIN categories
              THEN {[label |-> k, insert_text |-> k] :
                       k \in {k \in DOMAIN categories[category_prefix].items :
                                 starts_with(k, item_prefix)}}
              ELSE {}
         ELSE {[label |-> k, insert_text |-> k] :
                  k \in {k \in all_keys(categories) : starts_with(k, prefix)}})

\* C7: for a stored document, a line of it and a column within the line,
\* with prefix the text of the line before the column, completion returns
\* exactly one item per category whose name starts with prefix (inserting
\* the name and a '.'), together with, when prefix has a '.', one item per
\* keyword of the category named before the first '.' that starts with the
\* trimmed rest, and when it has none, one item per flattened keyword that
\* starts with prefix.
C7_CompletionItems ==
    (resp.kind = "completion" /\ ~BadPosition(resp)) =>
        /\ ~resp.panic
        /\ {[label |-> i.label, insert_text |-> i.insert_text] : i \in resp.items}
               = ClaimedItems(SubSeq(RequestedLine(resp), 1, resp.character))

\* the scanner with every branch advancing by the characters it consumes
RECURSIVE CharScanLine(_, _, _)
CharScanLine(chars, column, line_num) ==
    IF chars = <<>> THEN <<>>
    ELSE LET c == Head(chars)
             rest == Tail(chars)
             number == <<c>> \o number_run(rest)
             word == <<c>> \o word_run(rest)
         IN  IF is_operator(c)
             THEN <<SemanticToken(line_num, column, 1, 1)>>
                  \o CharScanLine(rest, column + 1, line_num)
             ELSE IF is_ascii_digit(c)
             THEN <<SemanticToken(line_num, column, Len(number), 2)>>
                  \o CharScanLine(SubSeq(rest, Len(number), Len(rest)),
                                  column + Len(number), line_num)
             ELSE IF is_alphabetic(c)
             THEN (IF word \in all_keys(categories)
                   THEN <<SemanticToken(line_num, column, Len(word), 0)>>
                   ELSE <<>>)
                  \o CharScanLine(SubSeq(rest, Len(word), Len(rest)),
                                  column + Len(word), line_num)
             ELSE CharScanLine(rest, column + 1, line_num)

RECURSIVE CharScanLines(_, _)
CharScanLines(ls, line_num) ==
    IF ls = <<>> THEN <<>>
    ELSE CharScanLine(Head(ls), 0, line_num)
         \o CharScanLines(Tail(ls), line_num + 1)

\* C10: for every line, also with letters of more than one byte, the start
\* column of every span is the number of characters before the span and the
\* length of a FUNCTION span is the number of characters of its word.
C10_CharacterColumns ==
    (resp.kind = "tokens" /\ resp.content.some) =>
        resp.tokens = CharScanLines(lines(resp.content.val), 0)

====
